---------------------------- MODULE Spec2Model ----------------------------
(***************************************************************************)
(* Model of the chatfuse dynamic loopback filesystem:                      *)
(*   packages/chatfuse/chatfuse/dynamic_operations.py  (DynamicOperations) *)
(*   packages/chatfuse/main.py                    (is_path_hidden, wiring) *)
(*                                                                         *)
(* A path string is modelled by what os.path sees of it: the number of     *)
(* leading slashes (sl) and the components of the rest split at "/" (cs,   *)
(* never empty: the empty string splits into one empty component).  A      *)
(* component is a record [b, ts, ext]: the base name, the list of          *)
(* "_<timestamp>" suffixes appended to the base, and the extension.        *)
(***************************************************************************)
EXTENDS Integers, Sequences, FiniteSets, TLC

(***************************************************************************)
(* Bounds of the model.                                                    *)
(***************************************************************************)
\* Spec: number of subpath installations the control channel delivers
MaxInstalls == 1
\* Spec: number of filesystem operations dispatched
MaxOps == 1
\* SpecCreate: the same two bounds, and the number of entries other
\* processes remove from the backing store
CreateInstalls == 2
CreateOps == 2
CreateExternal == 1

\* SpecIO: number of read/write calls running concurrently
MaxCallers == 2

\* SpecListener: calls of start and of stop, lines written to the channel,
\* and changes other processes make to the channel
MaxStarts == 2
MaxStops == 1
MaxLines == 2
MaxDamage == 1

\* fine ticks per clock second: strftime("%Y%m%d%H%M%S") has a resolution of
\* one second, datetime.now() and st_mtime are finer
TicksPerSecond == 2

(***************************************************************************)
(* Path strings.                                                           *)
(***************************************************************************)
N(b) == [b |-> b, ts |-> <<>>, ext |-> ""]
NX(b, e) == [b |-> b, ts |-> <<>>, ext |-> e]
Empty == N("")
Dot == N(".")
DotDot == N("..")

Str(sl, cs) == [sl |-> sl, cs |-> cs]
Rel(cs) == Str(0, cs)
Abs(cs) == Str(1, cs)
EmptyStr == Rel(<<Empty>>)

Last(s) == s[Len(s)]
Front(s) == SubSeq(s, 1, Len(s) - 1)

\* str.lstrip("/")
LStripSlash(p) == Str(0, p.cs)

\* os.path.join(a, b) (posixpath)
Join(a, b) ==
  IF b.sl >= 1 THEN b
  ELSE IF Last(a.cs) = Empty THEN Str(a.sl, Front(a.cs) \o b.cs)
  ELSE Str(a.sl, a.cs \o b.cs)

\* the component loop of os.path.normpath
RECURSIVE NormComps(_, _, _)
NormComps(cs, acc, slashes) ==
  IF cs = <<>> THEN acc
  ELSE LET c == Head(cs) IN
    IF c = Empty \/ c = Dot THEN NormComps(Tail(cs), acc, slashes)
    ELSE IF c # DotDot
            \/ (slashes = 0 /\ acc = <<>>)
            \/ (acc # <<>> /\ Last(acc) = DotDot)
      THEN NormComps(Tail(cs), Append(acc, c), slashes)
    ELSE IF acc # <<>> THEN NormComps(Tail(cs), Front(acc), slashes)
    ELSE NormComps(Tail(cs), acc, slashes)

\* os.path.normpath(p) (posixpath)
NormPath(p) ==
  LET slashes == IF p.sl = 2 THEN 2 ELSE IF p.sl >= 1 THEN 1 ELSE 0
      comps == NormComps(p.cs, <<>>, slashes)
  IN IF comps = <<>>
       THEN IF slashes = 0 THEN Rel(<<Dot>>) ELSE Str(slashes, <<Empty>>)
       ELSE Str(slashes, comps)

\* os.path.split(p): (head, tail) at the last slash
SplitHead(p) ==
  IF Len(p.cs) = 1 THEN Str(p.sl, <<Empty>>) ELSE Str(p.sl, Front(p.cs))
SplitTail(p) == Last(p.cs)

(***************************************************************************)
(* The backing store.  fs maps each existing absolute normalized path to   *)
(* its entry [ino, kind, mtime, data, target]; entries with the same ino   *)
(* are hard links of one inode and share mtime and data.  Symbolic links   *)
(* are followed at the last component only; a path below a symbolic link   *)
(* does not exist in the model.                                            *)
(***************************************************************************)
Slash == Abs(<<Empty>>)
Comps(p) == IF p.cs = <<Empty>> THEN <<>> ELSE p.cs
IsUnder(p, d) ==
  /\ p.sl >= 1 /\ d.sl >= 1
  /\ Len(Comps(p)) > Len(Comps(d))
  /\ SubSeq(Comps(p), 1, Len(Comps(d))) = Comps(d)
Inside(p, d) == p = d \/ IsUnder(p, d)
Rebase(p, src, dst) ==
  Abs(Comps(dst) \o SubSeq(Comps(p), Len(Comps(src)) + 1, Len(Comps(p))))
Parent(p) == SplitHead(p)

LExists(f, p) == p \in DOMAIN f
Children(f, d) == {p \in DOMAIN f : p # d /\ Parent(p) = d}
IsDirAt(f, p) == LExists(f, p) /\ f[p].kind = "dir"

\* the path a lookup that follows symbolic links ends at (at most two links)
Follow(f, p) ==
  IF LExists(f, p) /\ f[p].kind = "symlink"
    THEN LET q == f[p].target IN
         IF LExists(f, q) /\ f[q].kind = "symlink" THEN f[q].target ELSE q
    ELSE p
\* os.path.exists(p), and whether os.stat(p) succeeds
StatOk(f, p) == LExists(f, Follow(f, p)) /\ f[Follow(f, p)].kind # "symlink"

\* an inode number used by no entry and by no open handle (held)
FreshIno(f, held) ==
  CHOOSE n \in 1..(Cardinality(DOMAIN f) + Cardinality(held) + 1) :
    n \notin held /\ \A p \in DOMAIN f : f[p].ino # n

\* every link of inode i gets mtime t and data d
SetInode(f, i, t, d) ==
  [p \in DOMAIN f |->
     IF f[p].ino = i THEN [f[p] EXCEPT !.mtime = t, !.data = d] ELSE f[p]]
\* a change of directory d's entries updates its mtime
TouchDir(f, d, t) ==
  IF LExists(f, d) THEN [f EXCEPT ![d].mtime = t] ELSE f
AddEntry(f, p, e, t) ==
  TouchDir([q \in DOMAIN f \cup {p} |-> IF q = p THEN e ELSE f[q]], Parent(p), t)
DelEntry(f, p, t) ==
  TouchDir([q \in DOMAIN f \ {p} |-> f[q]], Parent(p), t)
NewEntry(f, held, k, t, tgt) ==
  [ino |-> FreshIno(f, held), kind |-> k, mtime |-> t, data |-> 0, target |-> tgt]

(***************************************************************************)
(* The system calls the handlers delegate to (Linux semantics).  Each      *)
(* returns [res, fs]: the errno name or "ok", and the store afterwards.    *)
(***************************************************************************)
R(r, f) == [res |-> r, fs |-> f]

SetMtime(f, i, t) ==
  [p \in DOMAIN f |-> IF f[p].ino = i THEN [f[p] EXCEPT !.mtime = t] ELSE f[p]]

\* os.rename(src, dst)
SysRename(f, src, dst, t) ==
  IF ~LExists(f, src) THEN R("ENOENT", f)
  ELSE IF ~LExists(f, Parent(dst)) THEN R("ENOENT", f)
  ELSE IF ~IsDirAt(f, Parent(dst)) THEN R("ENOTDIR", f)
  ELSE IF src = dst THEN R("ok", f)
  ELSE IF IsUnder(dst, src) THEN R("EINVAL", f)
  ELSE IF LExists(f, dst) /\ f[dst].ino = f[src].ino THEN R("ok", f)
  ELSE IF LExists(f, dst) /\ f[src].kind = "dir" /\ f[dst].kind # "dir"
    THEN R("ENOTDIR", f)
  ELSE IF LExists(f, dst) /\ f[src].kind # "dir" /\ f[dst].kind = "dir"
    THEN R("EISDIR", f)
  ELSE IF LExists(f, dst) /\ Children(f, dst) # {} THEN R("ENOTEMPTY", f)
  ELSE
    LET moved == {q \in DOMAIN f : Inside(q, src)}
        kept == (DOMAIN f \ moved) \ {dst}
        g == [q \in kept \cup {Rebase(m, src, dst) : m \in moved} |->
                IF q \in kept THEN f[q]
                ELSE f[CHOOSE m \in moved : Rebase(m, src, dst) = q]]
    IN R("ok", TouchDir(TouchDir(g, Parent(src), t), Parent(dst), t))

\* os.open(p, O_WRONLY | O_CREAT | O_TRUNC, mode)
SysOpenCreat(f, held, p, t) ==
  LET q == Follow(f, p) IN
  IF LExists(f, q) THEN
    IF f[q].kind = "dir" THEN R("EISDIR", f)
    ELSE IF f[q].kind = "symlink" THEN R("ELOOP", f)
    ELSE R("ok", SetInode(f, f[q].ino, t, 0))
  ELSE IF ~LExists(f, Parent(q)) THEN R("ENOENT", f)
  ELSE IF ~IsDirAt(f, Parent(q)) THEN R("ENOTDIR", f)
  ELSE R("ok", AddEntry(f, q, NewEntry(f, held, "file", t, Slash), t))

\* os.mkdir(p, mode) and os.mknod(p, mode, dev)
SysMake(f, held, p, k, t) ==
  IF LExists(f, p) THEN R("EEXIST", f)
  ELSE IF ~LExists(f, Parent(p)) THEN R("ENOENT", f)
  ELSE IF ~IsDirAt(f, Parent(p)) THEN R("ENOTDIR", f)
  ELSE R("ok", AddEntry(f, p, NewEntry(f, held, k, t, Slash), t))

\* os.unlink(p)
SysUnlink(f, p, t) ==
  IF ~LExists(f, p) THEN R("ENOENT", f)
  ELSE IF f[p].kind = "dir" THEN R("EISDIR", f)
  ELSE R("ok", DelEntry(f, p, t))

\* os.rmdir(p)
SysRmdir(f, p, t) ==
  IF ~LExists(f, p) THEN R("ENOENT", f)
  ELSE IF f[p].kind # "dir" THEN R("ENOTDIR", f)
  ELSE IF Children(f, p) # {} THEN R("ENOTEMPTY", f)
  ELSE R("ok", DelEntry(f, p, t))

\* os.link(src, dst): link(2), which does not follow a symbolic link
SysLink(f, src, dst, t) ==
  IF ~LExists(f, src) THEN R("ENOENT", f)
  ELSE IF LExists(f, dst) THEN R("EEXIST", f)
  ELSE IF ~LExists(f, Parent(dst)) THEN R("ENOENT", f)
  ELSE IF ~IsDirAt(f, Parent(dst)) THEN R("ENOTDIR", f)
  ELSE IF f[src].kind = "dir" THEN R("EPERM", f)
  ELSE R("ok", AddEntry(f, dst, f[src], t))

\* os.symlink(tgt, linkp)
SysSymlink(f, held, tgt, linkp, t) ==
  IF LExists(f, linkp) THEN R("EEXIST", f)
  ELSE IF ~LExists(f, Parent(linkp)) THEN R("ENOENT", f)
  ELSE IF ~IsDirAt(f, Parent(linkp)) THEN R("ENOTDIR", f)
  ELSE R("ok", AddEntry(f, linkp, NewEntry(f, held, "symlink", t, tgt), t))

\* open(p, "r+") and f.truncate(length)
SysTruncate(f, p, t) ==
  LET q == Follow(f, p) IN
  IF ~StatOk(f, p) THEN R("ENOENT", f)
  ELSE IF f[q].kind = "dir" THEN R("EISDIR", f)
  ELSE R("ok", SetInode(f, f[q].ino, t, 0))

\* os.utime(p, times)
SysUtime(f, p, tm) ==
  IF ~StatOk(f, p) THEN R("ENOENT", f)
  ELSE R("ok", SetMtime(f, f[Follow(f, p)].ino, tm))

\* calls that only look the path up, following a symbolic link or not
SysLookup(f, p) == IF StatOk(f, p) THEN R("ok", f) ELSE R("ENOENT", f)
SysLstat(f, p) == IF LExists(f, p) THEN R("ok", f) ELSE R("ENOENT", f)
SysReadlink(f, p) ==
  IF ~LExists(f, p) THEN R("ENOENT", f)
  ELSE IF f[p].kind # "symlink" THEN R("EINVAL", f)
  ELSE R("ok", f)

\* os.makedirs(p, exist_ok=True) of an unnormalized path p: the missing
\* directories of p are created from the top; an existing non-directory
\* on the way, or at p, makes it fail
RECURSIVE MakeDirs(_, _, _, _, _)
MakeDirs(f, held, cs, k, t) ==
  IF k > Len(cs) THEN R("ok", f)
  ELSE LET d == Abs(SubSeq(cs, 1, k)) IN
    IF LExists(f, d)
      THEN IF StatOk(f, d) /\ f[Follow(f, d)].kind = "dir"
             THEN MakeDirs(f, held, cs, k + 1, t)
             ELSE R(IF k = Len(cs) THEN "EEXIST" ELSE "ENOTDIR", f)
      ELSE MakeDirs(AddEntry(f, d, NewEntry(f, held, "dir", t, Slash), t),
                    held, cs, k + 1, t)
SysMakedirs(f, held, p, t) == MakeDirs(f, held, Comps(NormPath(p)), 1, t)

(***************************************************************************)
(* The engine: DynamicOperations and the policy main.py constructs it with *)
(***************************************************************************)
\* realpath(root)
Root == Abs(<<N("r")>>)
\* DynamicOperations(..., prevent_hiding_mount_path=True)
prevent_hiding_root_path == TRUE

\* values the installation callback is called with (stripped, non-empty
\* control-channel lines): ".", "s/" and ".."
Lines == {Rel(<<Dot>>), Rel(<<N("s"), Empty>>), Rel(<<DotDot>>)}
\* the lines among them that name a directory under the root
LinesBelow == {Rel(<<Dot>>), Rel(<<N("s"), Empty>>)}
\* logical paths the dispatch layer passes: "/", "/a", "/d"
LPaths == {Abs(<<Empty>>), Abs(<<N("a")>>), Abs(<<N("d")>>)}
\* second path arguments (rename's new path, the source of link/symlink):
\* "/", "/a", "/b"
Args == {Abs(<<Empty>>), Abs(<<N("a")>>), Abs(<<N("b")>>)}
\* a descriptor number that no open/create of this mount returned
NoHandle == 0

Second(t) == t \div TicksPerSecond

VARIABLES
  now,        \* the clock
  subpath,    \* DynamicOperations._subpath
  epoch,      \* DynamicOperations.last_subpath_update
  conflicts,  \* DynamicOperations.prevent_hidden_path_conflicts
  fs,         \* the backing store
  fds,        \* open file descriptors: handle -> [ino, lp]
  inst,       \* the thread executing the subpath setter
  op,         \* the filesystem operation in flight, or the last one finished
  nInst, nOps, nExt,
  io,         \* byte-range calls on one descriptor: the calls, rwlock, the offset
  chan,       \* the control channel: its directory, its file, the lines in it
  lst         \* the SubpathUpdater: its caller, its stop event, its threads

vars == <<now, subpath, epoch, conflicts, fs, fds, inst, op, nInst, nOps, nExt,
          io, chan, lst>>

Held == {fds[h].ino : h \in DOMAIN fds}

\* DynamicOperations.mountpath, reading _subpath = sp
mountpath(sp) == Join(Root, sp)
\* to_absolute_path without stripping the leading slashes
to_absolute_path_unstripped(sp, path) == NormPath(Join(mountpath(sp), path))

\* DynamicOperations._to_absolute_path(path), reading _subpath = sp
to_absolute_path(sp, path) == NormPath(Join(mountpath(sp), LStripSlash(path)))

\* the predicate with the comparison the other way round
is_path_hidden_newer(f, ep, path) ==
  IF ~StatOk(f, path) THEN "raise"
  ELSE IF f[Follow(f, path)].mtime > ep THEN "hidden" ELSE "visible"

\* main.is_path_hidden: os.stat(path) raises for a missing path,
\* otherwise st_mtime < last_subpath_update
is_path_hidden(f, ep, path) ==
  IF ~StatOk(f, path) THEN "raise"
  ELSE IF f[Follow(f, path)].mtime < ep THEN "hidden" ELSE "visible"

\* DynamicOperations._generate_unique_name(path) at clock t
generate_unique_name(path, t) ==
  LET directory == SplitHead(path)
      name == SplitTail(path)
      new_name == [b |-> name.b, ts |-> Append(name.ts, Second(t)), ext |-> name.ext]
  IN Join(directory, Rel(<<new_name>>))

(***************************************************************************)
(* Operation kinds, by the shape of their handler.                         *)
(***************************************************************************)
EnforceFirst == {"access", "chmod", "chown", "getattr", "open", "read", "readlink",
                 "rename", "rmdir", "statfs", "truncate", "unlink", "utimens", "write"}
SourceSecond == {"link", "symlink"}
Creators == {"create", "mkdir", "mknod"}
Unchecked == {"flush", "fsync", "release"}
TwoPaths == {"rename", "link", "symlink"}
OnHandle == {"read", "write", "flush", "fsync", "release"}
Kinds == EnforceFirst \cup SourceSecond \cup Creators \cup Unchecked \cup {"readdir"}

(***************************************************************************)
(* The operation record.  pc, kind, lp, arg, path, path2, fh, tm, mode,    *)
(* res and out are the handler's position, arguments, locals and result    *)
(* (mode is the mode argument of access: "F_OK" or "X_OK"); the rest       *)
(* records what happened, for the properties:                              *)
(*   sp     the _subpath value __call__ resolved the path under            *)
(*   quiet  no installation was running at dispatch or started since       *)
(*   chk    outcome of the visibility check: "exempt" (the checked path    *)
(*          was the mount root), "older" (its entry's mtime was before the *)
(*          epoch), "missing", "newer"                                     *)
(*   called the delegated call was made;  wrote: the store was changed     *)
(*   hino, hdata  inode and content of the hidden entry found by the       *)
(*          conflict check;  sa: result of the set-aside rename;           *)
(*   gone   the entry was no longer there at the rename                    *)
(*   alone  no other process touched the operation's path meanwhile        *)
(*   locked another thread held rwlock when the operation was dispatched   *)
(***************************************************************************)
NoOp == [pc |-> "idle", kind |-> "none", lp |-> Slash, arg |-> Slash, path |-> Slash,
         path2 |-> EmptyStr, fh |-> NoHandle, tm |-> 0, mode |-> "F_OK",
         res |-> "none", out |-> {},
         sp |-> NormPath(EmptyStr), quiet |-> FALSE, chk |-> "none",
         called |-> FALSE, wrote |-> FALSE, hino |-> 0, hdata |-> 0, sa |-> "none",
         gone |-> FALSE, alone |-> TRUE, locked |-> FALSE]

Busy == op.pc \notin {"idle", "done"}

\* the handler returns or raises: its locals are dropped
Finish(r) == [op EXCEPT !.pc = "done", !.res = r, !.path2 = EmptyStr,
                        !.fh = NoHandle, !.tm = 0, !.sp = NoOp.sp, !.quiet = FALSE]

\* the store at construction: the root, a file a and a directory d holding
\* a file a, with the mtimes given
Store(mr, ma, md, mda) ==
   [q \in {Slash, Root, Abs(<<N("r"), N("a")>>), Abs(<<N("r"), N("d")>>),
           Abs(<<N("r"), N("d"), N("a")>>)} |->
      IF q = Slash THEN [ino |-> 1, kind |-> "dir", mtime |-> 0, data |-> 0, target |-> Slash]
      ELSE IF q = Root THEN [ino |-> 2, kind |-> "dir", mtime |-> mr, data |-> 0, target |-> Slash]
      ELSE IF q = Abs(<<N("r"), N("a")>>)
        THEN [ino |-> 3, kind |-> "file", mtime |-> ma, data |-> 1, target |-> Slash]
      ELSE IF q = Abs(<<N("r"), N("d")>>)
        THEN [ino |-> 4, kind |-> "dir", mtime |-> md, data |-> 0, target |-> Slash]
      ELSE [ino |-> 5, kind |-> "file", mtime |-> mda, data |-> 1, target |-> Slash]]

\* the clock at construction: the start of second 1; entries of the store
\* with mtime 0 are older than the construction
StartTime == TicksPerSecond

\* the setter's record: pc, and for the properties the raw value of the last
\* call (line) and, while an installation runs, the pair (_subpath,
\* last_subpath_update) before its assignment (old) and the pair once both
\* are assigned (new; <<>> until then); outside it both are the current pair.
\* err is how the last call ended: "ok", or the OSError os.makedirs raised
Pair == <<subpath, epoch>>

\* __init__ (lines 39-46) with subpath "" and prevent_hidden_path_conflicts
\* = flag
ConstructedWith(stores, flag) ==
  /\ now = StartTime
  /\ subpath = NormPath(EmptyStr)
  /\ epoch = StartTime
  /\ conflicts = flag
  /\ fs \in stores
  /\ fds = <<>>
  /\ inst = [pc |-> "idle", line |-> EmptyStr,
             old |-> <<NormPath(EmptyStr), StartTime>>,
             new |-> <<NormPath(EmptyStr), StartTime>>, err |-> "ok"]
  /\ op = NoOp
  /\ nInst = 0 /\ nOps = 0 /\ nExt = 0

\* main.py lines 68-73: prevent_hidden_path_conflicts=True
Constructed(stores) == ConstructedWith(stores, TRUE)

\* the clock advances; it is read for the epoch by the setter, and ordering
\* against epochs is all a time is used for, so the advance is taken where
\* the setter is about to read it, at most once per installation
Tick ==
  /\ inst.pc = "epoch"
  /\ now < StartTime + nInst
  /\ now' = now + 1
  /\ UNCHANGED <<subpath, epoch, conflicts, fs, fds, inst, op, nInst, nOps, nExt, io, chan, lst>>

(***************************************************************************)
(* The subpath setter, run by the listener thread through update_subpath.  *)
(***************************************************************************)
\* a setter that assigns whatever the value
SetterAssign_always(lines, maxI) ==
  /\ inst.pc = "idle"
  /\ nInst < maxI
  /\ nInst' = nInst + 1
  /\ \E value \in lines :
       /\ subpath' = NormPath(value)
       /\ inst' = [pc |-> "epoch", line |-> value, old |-> Pair, new |-> <<>>,
                   err |-> "ok"]
  /\ op' = IF Busy THEN [op EXCEPT !.quiet = FALSE] ELSE op
  /\ UNCHANGED <<now, epoch, conflicts, fs, fds, nOps, nExt, io, chan, lst>>

\* lines 75-77: normalize, compare, assign _subpath
SetterAssign(lines, maxI) ==
  /\ inst.pc = "idle"
  /\ nInst < maxI
  /\ nInst' = nInst + 1
  /\ \E value \in lines :
       LET new_subpath == NormPath(value) IN
         IF subpath # new_subpath
           THEN /\ subpath' = new_subpath
                /\ inst' = [pc |-> "epoch", line |-> value, old |-> Pair, new |-> <<>>,
                            err |-> "ok"]
           ELSE /\ subpath' = subpath
                /\ inst' = [inst EXCEPT !.line = value, !.err = "ok"]
  /\ op' = IF Busy THEN [op EXCEPT !.quiet = FALSE] ELSE op
  /\ UNCHANGED <<now, epoch, conflicts, fs, fds, nOps, nExt, io, chan, lst>>

\* line 78: last_subpath_update = datetime.now()
SetterEpoch ==
  /\ inst.pc = "epoch"
  /\ epoch' = now
  /\ inst' = [inst EXCEPT !.pc = "makedirs", !.new = <<subpath, now>>]
  /\ UNCHANGED <<now, subpath, conflicts, fs, fds, op, nInst, nOps, nExt, io, chan, lst>>

\* line 79: os.makedirs(self.mountpath, exist_ok=True)
SetterMakedirs ==
  /\ inst.pc = "makedirs"
  /\ fs' = SysMakedirs(fs, Held, mountpath(subpath), now).fs
  /\ inst' = [inst EXCEPT !.pc = "idle", !.old = inst.new,
                          !.err = SysMakedirs(fs, Held, mountpath(subpath), now).res]
  /\ UNCHANGED <<now, subpath, epoch, conflicts, fds, op, nInst, nOps, nExt, io, chan, lst>>

(***************************************************************************)
(* Filesystem operations.  The dispatch layer calls __call__, which        *)
(* resolves the first path argument and then runs the handler.             *)
(***************************************************************************)
\* io.lock when no thread holds rwlock
NoThread == 0

\* a lock that lets every caller in
rwlock_open(l) == TRUE

\* threading.Lock: acquire goes through when no thread holds it
rwlock_free(l) == l = NoThread

\* handlers that all take rwlock
takes_lock_all(kind) == TRUE

\* lines 303 and 450: the handlers with a "with self.rwlock" block
takes_lock(kind) == kind \in {"read", "write"}

\* a handler that goes straight to its delegated call
FirstPc_unchecked(kind) == "call"

\* every handler begins with the visibility check
FirstPc_enforced(kind) == "enforce"

FirstPc(kind) ==
  IF kind \in EnforceFirst THEN "enforce"
  ELSE IF kind \in SourceSecond THEN "resolve2"
  ELSE IF kind \in Creators THEN "conflict"
  ELSE IF kind = "readdir" THEN "listdir"
  ELSE "call"

\* __call__ (lines 59-63): resolve the path, enter the handler
Start(kind, lp, arg, fh, tm, maxO) ==
  /\ ~Busy
  /\ nOps < maxO
  /\ nOps' = nOps + 1
  /\ op' = [NoOp EXCEPT !.pc = FirstPc(kind), !.kind = kind, !.lp = lp, !.arg = arg,
                        !.path = to_absolute_path(subpath, lp), !.fh = fh, !.tm = tm,
                        !.sp = subpath, !.quiet = (inst.pc = "idle"),
                        !.locked = (io.lock # NoThread)]
  /\ UNCHANGED <<now, subpath, epoch, conflicts, fs, fds, inst, nInst, nExt, io, chan, lst>>

\* the dispatch layer never asks to create the root of the mount
Dispatch(maxO) ==
  \/ \E kind \in (Kinds \ OnHandle) \ (TwoPaths \cup Creators \cup {"utimens"}) :
       \E lp \in LPaths : Start(kind, lp, Slash, NoHandle, 0, maxO)
  \/ \E kind \in TwoPaths : \E lp \in LPaths \ {Slash}, arg \in Args :
       Start(kind, lp, arg, NoHandle, 0, maxO)
  \/ \E lp \in LPaths, tm \in {0, now} : Start("utimens", lp, Slash, NoHandle, tm, maxO)
  \/ \E kind \in OnHandle : \E lp \in LPaths, h \in DOMAIN fds \cup {NoHandle} :
       Start(kind, lp, Slash, h, 0, maxO)

\* the dispatch layer calls access with a mode
DispatchAccess(lps, maxO) ==
  /\ ~Busy
  /\ nOps < maxO
  /\ nOps' = nOps + 1
  /\ \E lp \in lps, mode \in {"F_OK", "X_OK"} :
       op' = [NoOp EXCEPT !.pc = FirstPc("access"), !.kind = "access", !.lp = lp,
                          !.path = to_absolute_path(subpath, lp), !.mode = mode,
                          !.sp = subpath, !.quiet = (inst.pc = "idle"),
                          !.locked = (io.lock # NoThread)]
  /\ UNCHANGED <<now, subpath, epoch, conflicts, fs, fds, inst, nInst, nExt, io, chan, lst>>

DispatchCreate(lps, maxO) ==
  \E kind \in Creators : \E lp \in lps :
    Start(kind, lp, Slash, NoHandle, 0, maxO)

\* a check that always looks at the first path argument
Checked_first == op.path

\* the path the handler checks for visibility, and its logical form
Checked == IF op.kind \in SourceSecond THEN op.path2 ELSE op.path
CheckedLp == IF op.kind \in SourceSecond THEN op.arg ELSE op.lp

\* the entry at p exists and was last modified before the epoch ep
Older(f, ep, p) == StatOk(f, p) /\ f[Follow(f, p)].mtime < ep

\* a resolution of the second argument that installs it as the subpath
Resolve2_installing ==
  /\ op.pc = "resolve2"
  /\ op' = [op EXCEPT !.path2 = to_absolute_path(subpath, op.arg),
                      !.pc = IF op.kind = "rename" THEN "call" ELSE "enforce"]
  /\ subpath' = NormPath(LStripSlash(op.arg))
  /\ UNCHANGED <<now, epoch, conflicts, fs, fds, inst, nInst, nOps, nExt, io, chan, lst>>

\* link 247, symlink 399, rename 355: _to_absolute_path(second argument)
Resolve2 ==
  /\ op.pc = "resolve2"
  /\ op' = [op EXCEPT !.path2 = to_absolute_path(subpath, op.arg),
                      !.pc = IF op.kind = "rename" THEN "call" ELSE "enforce"]
  /\ UNCHANGED <<now, subpath, epoch, conflicts, fs, fds, inst, nInst, nOps, nExt, io, chan, lst>>

AfterEnforce == IF op.kind = "rename" THEN "resolve2" ELSE "call"

\* _enforce_path_hiding, lines 104-105: the mount-root exemption
EnforceRoot ==
  /\ op.pc = "enforce"
  /\ op' = IF prevent_hiding_root_path /\ Checked = NormPath(mountpath(subpath))
             THEN [op EXCEPT !.pc = AfterEnforce, !.chk = "exempt"]
             ELSE [op EXCEPT !.pc = "hidden"]
  /\ UNCHANGED <<now, subpath, epoch, conflicts, fs, fds, inst, nInst, nOps, nExt, io, chan, lst>>

\* _enforce_path_hiding, lines 106-110: the predicate; a path os.stat does
\* not find raises FileNotFoundError, which reaches the caller as ENOENT
EnforceHidden ==
  /\ op.pc = "hidden"
  /\ LET seen == IF Older(fs, epoch, Checked) THEN "older"
                 ELSE IF StatOk(fs, Checked) THEN "newer" ELSE "missing"
     IN op' = IF is_path_hidden(fs, epoch, Checked) = "visible"
                THEN [op EXCEPT !.pc = AfterEnforce, !.chk = seen]
                ELSE [Finish("ENOENT") EXCEPT !.chk = seen]
  /\ UNCHANGED <<now, subpath, epoch, conflicts, fs, fds, inst, nInst, nOps, nExt, io, chan, lst>>

\* a conflict check that does not look at the flag
ConflictExists_unconditional ==
  /\ op.pc = "conflict"
  /\ op' = [op EXCEPT !.pc = IF StatOk(fs, op.path) THEN "set_aside" ELSE "call"]
  /\ UNCHANGED <<now, subpath, epoch, conflicts, fs, fds, inst, nInst, nOps, nExt, io, chan, lst>>

\* _handle_hidden_path_conflict, lines 133-134: the flag and os.path.exists
ConflictExists ==
  /\ op.pc = "conflict"
  /\ op' = [op EXCEPT !.pc = IF conflicts /\ StatOk(fs, op.path)
                               THEN "conflict_hidden" ELSE "call"]
  /\ UNCHANGED <<now, subpath, epoch, conflicts, fs, fds, inst, nInst, nOps, nExt, io, chan, lst>>

\* _handle_hidden_path_conflict, line 135: the predicate, outside the try
ConflictHidden ==
  /\ op.pc = "conflict_hidden"
  /\ LET h == is_path_hidden(fs, epoch, op.path) IN
       op' = IF h = "raise" THEN Finish("ENOENT")
             ELSE IF h = "visible" THEN [op EXCEPT !.pc = "call"]
             ELSE [op EXCEPT !.pc = "set_aside",
                             !.hino = IF Older(fs, epoch, op.path)
                                        THEN fs[op.path].ino ELSE 0,
                             !.hdata = IF Older(fs, epoch, op.path)
                                         THEN fs[op.path].data ELSE 0]
  /\ UNCHANGED <<now, subpath, epoch, conflicts, fs, fds, inst, nInst, nOps, nExt, io, chan, lst>>

\* an except clause that lets no OSError out
swallows_all(res) == TRUE

\* _handle_hidden_path_conflict, lines 143-145: "if e.errno != errno.ENOENT:
\* raise"
swallows(res) == res = "ENOENT"

\* _handle_hidden_path_conflict, lines 137-145: rename to the generated
\* name; an OSError other than ENOENT is raised again
SetAside ==
  /\ op.pc = "set_aside"
  /\ LET r == SysRename(fs, op.path, generate_unique_name(op.path, now), now)
         o == [op EXCEPT !.sa = r.res, !.gone = ~LExists(fs, op.path),
                         !.wrote = (r.fs # fs)]
     IN /\ fs' = r.fs
        /\ op' = IF r.res = "ok" \/ swallows(r.res)
                   THEN [o EXCEPT !.pc = "call"]
                   ELSE [o EXCEPT !.pc = "done", !.res = r.res, !.path2 = EmptyStr,
                                  !.fh = NoHandle, !.tm = 0, !.sp = NoOp.sp,
                                  !.quiet = FALSE]
  /\ UNCHANGED <<now, subpath, epoch, conflicts, fds, inst, nInst, nOps, nExt, io, chan, lst>>

\* readdir, line 315: os.listdir(path)
ListDir ==
  /\ op.pc = "listdir"
  /\ op' = IF ~StatOk(fs, op.path) THEN Finish("ENOENT")
           ELSE IF fs[Follow(fs, op.path)].kind # "dir" THEN Finish("ENOTDIR")
           ELSE [op EXCEPT !.pc = "filter", !.called = TRUE,
                           !.out = {SplitTail(c) : c \in Children(fs, Follow(fs, op.path))}]
  /\ UNCHANGED <<now, subpath, epoch, conflicts, fs, fds, inst, nInst, nOps, nExt, io, chan, lst>>

\* readdir, lines 316-321: is_path_hidden(_to_absolute_path(name)) per name
ChildPath(sp, name) == to_absolute_path(sp, Rel(<<name>>))
Filter ==
  /\ op.pc = "filter"
  /\ op' = IF \E n \in op.out : is_path_hidden(fs, epoch, ChildPath(subpath, n)) = "raise"
             THEN [Finish("ENOENT") EXCEPT !.out = {}]
             ELSE [Finish("ok") EXCEPT !.out =
                     {Dot, DotDot} \cup
                     {n \in op.out :
                        is_path_hidden(fs, epoch, ChildPath(subpath, n)) = "visible"}]
  /\ UNCHANGED <<now, subpath, epoch, conflicts, fs, fds, inst, nInst, nOps, nExt, io, chan, lst>>

\* os.access(path, mode): the entry exists and permits the mode; the
\* directories of the store may be searched, its files may not be executed
os_access(f, path, mode) ==
  StatOk(f, path) /\ (mode = "X_OK" => f[Follow(f, path)].kind = "dir")

\* the delegated call of each handler
Delegated(kind) ==
  CASE kind = "access" ->
         IF os_access(fs, op.path, op.mode) THEN R("ok", fs) ELSE R("EACCES", fs)
    [] kind \in {"chmod", "chown", "statfs", "open"} -> SysLookup(fs, op.path)
    [] kind = "getattr" -> SysLstat(fs, op.path)
    [] kind = "readlink" -> SysReadlink(fs, op.path)
    [] kind = "rename" -> SysRename(fs, op.path, op.path2, now)
    [] kind = "rmdir" -> SysRmdir(fs, op.path, now)
    [] kind = "unlink" -> SysUnlink(fs, op.path, now)
    [] kind = "truncate" -> SysTruncate(fs, op.path, now)
    [] kind = "utimens" -> SysUtime(fs, op.path, op.tm)
    [] kind = "link" -> SysLink(fs, op.path2, op.path, now)
    [] kind = "symlink" -> SysSymlink(fs, Held, op.path2, op.path, now)
    [] kind = "create" -> SysOpenCreat(fs, Held, op.path, now)
    [] kind = "mkdir" -> SysMake(fs, Held, op.path, "dir", now)
    [] kind = "mknod" -> SysMake(fs, Held, op.path, "file", now)
    [] kind = "write" /\ op.fh \in DOMAIN fds ->
         R("ok", SetInode(fs, fds[op.fh].ino, now, 2))
    [] kind \in OnHandle /\ op.fh \notin DOMAIN fds -> R("EBADF", fs)
    [] OTHER -> R("ok", fs)

FreeHandle == CHOOSE h \in 1..(Cardinality(DOMAIN fds) + 1) : h \notin DOMAIN fds

Call ==
  /\ op.pc = "call"
  /\ takes_lock(op.kind) => rwlock_free(io.lock)
  /\ LET r == Delegated(op.kind) IN
       /\ fs' = r.fs
       /\ op' = [Finish(r.res) EXCEPT !.called = TRUE, !.wrote = (op.wrote \/ r.fs # fs)]
       /\ fds' =
            IF r.res = "ok" /\ op.kind \in {"open", "create"}
              THEN [h \in DOMAIN fds \cup {FreeHandle} |->
                      IF h \in DOMAIN fds THEN fds[h]
                      ELSE [ino |-> r.fs[Follow(r.fs, op.path)].ino, lp |-> op.lp]]
            ELSE IF op.kind = "release"
              THEN [h \in DOMAIN fds \ {op.fh} |-> fds[h]]
            ELSE fds
  /\ UNCHANGED <<now, subpath, epoch, conflicts, inst, nInst, nOps, nExt, io, chan, lst>>

\* another process removes the entry at the path of the operation in flight
ExternalRemove(maxE) ==
  /\ nExt < maxE
  /\ nExt' = nExt + 1
  /\ Busy
  /\ LExists(fs, op.path)
  /\ Children(fs, op.path) = {}
  /\ fs' = DelEntry(fs, op.path, now)
  /\ op' = [op EXCEPT !.alone = FALSE]
  /\ UNCHANGED <<now, subpath, epoch, conflicts, fds, inst, nInst, nOps, io, chan, lst>>

Handler ==
  \/ Resolve2
  \/ EnforceRoot
  \/ EnforceHidden
  \/ ConflictExists
  \/ ConflictHidden
  \/ SetAside
  \/ ListDir
  \/ Filter
  \/ Call

Setter == SetterEpoch \/ SetterMakedirs

(***************************************************************************)
(* Byte-range I/O: read (lines 291-305) and write (lines 439-452) on one   *)
(* open descriptor, called from several threads of the dispatch layer.     *)
(* io.call[t] is the call of thread t: its position, kind, offset          *)
(* argument, path argument lp, the state fh of the descriptor it is given  *)
(* ("rw", "ro", "wo": open that way; "closed": not an open descriptor),    *)
(* its result res and, for the properties, the file offset its data step   *)
(* acted at; io.lock is the holder of rwlock (NoThread: free), io.pos the  *)
(* offset of the descriptor, io.data the bytes of the file.                *)
(***************************************************************************)
IoThreads == 1..MaxCallers
\* offset arguments; every call transfers one byte
Offsets == {0, 1}

IoIdle ==
  [call |-> [t \in IoThreads |-> [pc |-> "idle", kind |-> "none", off |-> 0, at |-> 0,
                                  lp |-> Slash, fh |-> "rw", res |-> "none"]],
   lock |-> NoThread, pos |-> 0, data |-> [o \in Offsets |-> 0]]

\* the dispatch layer calls read or write with an offset, on a visible
\* path and a descriptor open for reading and writing
IoDispatch(t) ==
  /\ io.call[t].pc = "idle"
  /\ \E kind \in {"read", "write"}, off \in Offsets :
       io' = [io EXCEPT !.call[t] = [pc |-> "acquire", kind |-> kind, off |-> off, at |-> 0,
                                     lp |-> Slash, fh |-> "rw", res |-> "none"]]
  /\ UNCHANGED <<now, subpath, epoch, conflicts, fs, fds, inst, op, nInst, nOps, nExt, chan, lst>>

\* __call__ (lines 59-63) with read or write at offset 0, on one of the
\* paths lps and one of the descriptors fhs
IoStart(t, lps, fhs) ==
  /\ io.call[t].pc = "idle"
  /\ \E kind \in {"read", "write"}, off \in {0}, lp \in lps, fh \in fhs :
       io' = [io EXCEPT !.call[t] = [pc |-> "enforce", kind |-> kind, off |-> off, at |-> 0,
                                     lp |-> lp, fh |-> fh, res |-> "none"]]
  /\ UNCHANGED <<now, subpath, epoch, conflicts, fs, fds, inst, op, nInst, nOps, nExt, chan, lst>>

\* lines 302, 449: _enforce_path_hiding(path) raises before the with block
IoEnforce(t) ==
  /\ io.call[t].pc = "enforce"
  /\ LET path == to_absolute_path(subpath, io.call[t].lp)
         exempt == prevent_hiding_root_path /\ path = NormPath(mountpath(subpath))
     IN io' = IF exempt \/ is_path_hidden(fs, epoch, path) = "visible"
                THEN [io EXCEPT !.call[t].pc = "acquire"]
                ELSE [io EXCEPT !.call[t].pc = "done", !.call[t].res = "ENOENT"]
  /\ UNCHANGED <<now, subpath, epoch, conflicts, fs, fds, inst, op, nInst, nOps, nExt, chan, lst>>

\* a seek whose failure leaves the call without releasing rwlock
IoSeek_leaking(t) ==
  /\ io.call[t].pc = "seek"
  /\ io' = IF io.call[t].fh = "closed"
             THEN [io EXCEPT !.call[t].pc = "done", !.call[t].res = "EBADF"]
             ELSE [io EXCEPT !.call[t].pc = "data", !.pos = io.call[t].off]
  /\ UNCHANGED <<now, subpath, epoch, conflicts, fs, fds, inst, op, nInst, nOps, nExt, chan, lst>>

\* lines 303, 450: with self.rwlock
IoAcquire(t) ==
  /\ io.call[t].pc = "acquire"
  /\ rwlock_free(io.lock)
  /\ io' = [io EXCEPT !.call[t].pc = "seek", !.lock = t]
  /\ UNCHANGED <<now, subpath, epoch, conflicts, fs, fds, inst, op, nInst, nOps, nExt, chan, lst>>

\* lines 304, 451: os.lseek(fh, offset, 0)
IoSeek(t) ==
  /\ io.call[t].pc = "seek"
  /\ io' = IF io.call[t].fh = "closed"
             THEN [io EXCEPT !.call[t].pc = "release", !.call[t].res = "EBADF"]
             ELSE [io EXCEPT !.call[t].pc = "data", !.pos = io.call[t].off]
  /\ UNCHANGED <<now, subpath, epoch, conflicts, fs, fds, inst, op, nInst, nOps, nExt, chan, lst>>

\* lines 305, 452: os.read(fh, size) / os.write(fh, data) at the offset of
\* the descriptor, which moves on by the byte transferred
IoData(t) ==
  /\ io.call[t].pc = "data"
  /\ io' = IF io.call[t].fh = (IF io.call[t].kind = "read" THEN "wo" ELSE "ro")
             THEN [io EXCEPT !.call[t].pc = "release", !.call[t].res = "EBADF"]
             ELSE [io EXCEPT !.call[t].pc = "release", !.call[t].at = io.pos,
                             !.call[t].res = "ok",
                             !.pos = io.pos + 1,
                             !.data = IF io.call[t].kind = "write" /\ io.pos \in Offsets
                                        THEN [io.data EXCEPT ![io.pos] = t] ELSE io.data]
  /\ UNCHANGED <<now, subpath, epoch, conflicts, fs, fds, inst, op, nInst, nOps, nExt, chan, lst>>

\* leaving the with block releases rwlock; the call returns
IoRelease(t) ==
  /\ io.call[t].pc = "release"
  /\ io' = [io EXCEPT !.call[t].pc = "done", !.lock = NoThread]
  /\ UNCHANGED <<now, subpath, epoch, conflicts, fs, fds, inst, op, nInst, nOps, nExt, chan, lst>>

(***************************************************************************)
(* The control channel and the SubpathUpdater (subpath_updater.py).        *)
(*                                                                         *)
(* chan is the channel as the operating system holds it: dir is what is at *)
(* dirname(pipe_path) ("dir", "file", "none", or "barred": none, and one   *)
(* may not be made), node what is at pipe_path                             *)
(* ("fifo", "file" or "none"), mode the permission bits of node, umask the *)
(* file mode creation mask of the process.                                 *)
(*                                                                         *)
(* lst is the SubpathUpdater and its caller: caller is the position of the *)
(* thread that constructs, starts and stops it; stop is stop_listening;    *)
(* ths are the Thread objects created so far, the last being self.thread.  *)
(* A thread has pc, buf (the lines read from the pipe and not yet          *)
(* iterated), cur (the stripped line handed to the callback), n (the       *)
(* number of callback invocations made before its own) and exc (where the  *)
(* exception it is handling was raised: "open" or "callback").  For the    *)
(* properties: got are the lines read from the channel so far, calls the   *)
(* arguments of the callback invocations, made whether the FIFO was        *)
(* created by this SubpathUpdater, pre the entry found at pipe_path by the *)
(* constructor, and seq the calls made by the caller.                      *)
(***************************************************************************)
\* a line of the channel: whitespace, text, whitespace and newline
Raw(lead, text, trail) == [lead |-> lead, text |-> text, trail |-> trail]
\* "s/\n", " .\n", "a\n", "  \n" and "\n"
RawLines ==
  {Raw(0, Rel(<<N("s"), Empty>>), 1), Raw(1, Rel(<<Dot>>), 1), Raw(0, Rel(<<N("a")>>), 1),
   Raw(2, EmptyStr, 1), Raw(0, EmptyStr, 1)}
\* what one writer leaves in the pipe between its open and its close
Batches == {<<l>> : l \in RawLines} \cup {<<l, m>> : l, m \in RawLines}

\* line 75: line.strip()
strip(line) == line.text
\* a test that lets every line through
accepts_all(new_path) == TRUE
\* line 76: if new_path
accepts(new_path) == new_path # EmptyStr

\* permission bits: pipe_permissions = 0o620, and the masks of the process
pipe_permissions == {"ur", "uw", "gw"}
Umasks == {{}, {"gw", "ow"}}

\* os.path.exists(pipe_dir), os.path.exists(self.pipe_path)
DirExists(ch) == ch.dir \notin {"none", "barred"}
PipeExists(ch) == ch.dir = "dir" /\ ch.node # "none"

\* os.mkfifo(path, mode): the umask is masked out of the mode
MkFifo(ch, mode) ==
  IF ch.dir # "dir" THEN R("ENOTDIR", ch)
  ELSE IF ch.node # "none" THEN R("EEXIST", ch)
  ELSE R("ok", [ch EXCEPT !.node = "fifo", !.mode = mode \ ch.umask])

\* _create_pipe, lines 41-54; the result is "ok" or the OSError raised
create_pipe(ch) ==
  LET d == IF ~DirExists(ch) THEN [ch EXCEPT !.dir = "dir"] ELSE ch
  IN IF ch.dir = "barred" THEN R("EACCES", ch)
     ELSE IF ~PipeExists(d) THEN MkFifo(d, pipe_permissions) ELSE R("ok", d)

\* _cleanup_resources, lines 60-65
cleanup_resources(ch) ==
  IF PipeExists(ch) THEN [ch EXCEPT !.node = "none", !.mode = {}] ELSE ch

Unstarted == [pc |-> "unstarted", buf |-> <<>>, cur |-> EmptyStr, n |-> 0, exc |-> "none"]
is_alive(th) == th.pc \notin {"unstarted", "exited", "crashed"}
Alive == {i \in DOMAIN lst.ths : is_alive(lst.ths[i])}
Current == lst.ths[Len(lst.ths)]

\* a thread blocked in the open of a FIFO that is then unlinked stays
\* blocked: no writer can reach that FIFO any more
Unlinked(ths) ==
  [i \in DOMAIN ths |-> IF ths[i].pc = "blocked" THEN [ths[i] EXCEPT !.pc = "stuck"]
                        ELSE ths[i]]

\* before main.py line 78
NoEntry == [node |-> "none", mode |-> {}]
LstNew ==
  [caller |-> "new", stop |-> FALSE, ths |-> <<>>, got |-> <<>>, calls |-> <<>>,
   made |-> FALSE, pre |-> NoEntry, seq |-> <<>>]

\* the states the channel can be found in at startup
ChanStates ==
  {[dir |-> d, node |-> n, mode |-> m, umask |-> u] :
     d \in {"dir", "none", "file", "barred"}, n \in {"none", "fifo", "file"},
     m \in {{}, {"ur", "uw"}}, u \in Umasks}
ChanAtStart ==
  {ch \in ChanStates : /\ ch.node # "none" => ch.dir = "dir"
                       /\ ch.mode # {} <=> ch.node # "none"}
ChanAbsent == [dir |-> "dir", node |-> "none", mode |-> {}, umask |-> {}]

\* __init__, lines 28-33: the Thread object, the event, _create_pipe
Construct ==
  /\ lst.caller = "new"
  /\ LET r == create_pipe(chan) IN
       /\ chan' = r.fs
       /\ lst' = [lst EXCEPT !.caller = IF r.res = "ok" THEN "ready" ELSE "failed",
                             !.ths = <<Unstarted>>,
                             !.pre = IF PipeExists(chan)
                                       THEN [node |-> chan.node, mode |-> chan.mode]
                                       ELSE NoEntry,
                             !.made = (r.res = "ok" /\ ~PipeExists(chan)),
                             !.seq = <<"init">>]
  /\ UNCHANGED <<now, subpath, epoch, conflicts, fs, fds, inst, op, nInst, nOps, nExt, io>>

\* a start that does not look at the thread
start_always(th) == TRUE
\* line 88: if not self.thread.is_alive()
start_spawns(th) == ~is_alive(th)

\* start, lines 88-90
StartListener(maxS) ==
  /\ lst.caller = "ready"
  /\ Len(SelectSeq(lst.seq, LAMBDA c : c = "start")) < maxS
  /\ lst' = [lst EXCEPT !.seq = Append(lst.seq, "start"),
                        !.ths = IF start_spawns(Current)
                                  THEN Append(lst.ths, [Unstarted EXCEPT !.pc = "test"])
                                  ELSE lst.ths]
  /\ UNCHANGED <<now, subpath, epoch, conflicts, fs, fds, inst, op, nInst, nOps, nExt, io, chan>>

\* stop, line 96: self.stop_listening.set()
StopSet(maxP) ==
  /\ lst.caller = "ready"
  /\ Len(SelectSeq(lst.seq, LAMBDA c : c = "stop")) < maxP
  /\ lst' = [lst EXCEPT !.seq = Append(lst.seq, "stop"), !.stop = TRUE, !.caller = "join"]
  /\ UNCHANGED <<now, subpath, epoch, conflicts, fs, fds, inst, op, nInst, nOps, nExt, io, chan>>

\* a join that returns at once for a thread that was never started
StopJoin_silent ==
  /\ lst.caller = "join"
  /\ ~is_alive(Current)
  /\ lst' = [lst EXCEPT !.caller = "cleanup"]
  /\ UNCHANGED <<now, subpath, epoch, conflicts, fs, fds, inst, op, nInst, nOps, nExt, io, chan>>

\* stop, line 97: self.thread.join() returns when the thread has ended, and
\* raises RuntimeError for a thread that was never started
StopJoin ==
  /\ lst.caller = "join"
  /\ ~is_alive(Current)
  /\ lst' = [lst EXCEPT !.caller = IF Current.pc = "unstarted" THEN "ready" ELSE "cleanup",
                        !.seq = IF Current.pc = "unstarted"
                                  THEN Append(lst.seq, "raised") ELSE lst.seq]
  /\ UNCHANGED <<now, subpath, epoch, conflicts, fs, fds, inst, op, nInst, nOps, nExt, io, chan>>

\* stop, line 98: self._cleanup_resources()
StopCleanup ==
  /\ lst.caller = "cleanup"
  /\ chan' = cleanup_resources(chan)
  /\ lst' = [lst EXCEPT !.caller = "ready", !.seq = Append(lst.seq, "stopped"),
                        !.ths = IF PipeExists(chan) THEN Unlinked(lst.ths) ELSE lst.ths]
  /\ UNCHANGED <<now, subpath, epoch, conflicts, fs, fds, inst, op, nInst, nOps, nExt, io>>

\* thread i exists and is at position pc
At(i, pc) == i \in DOMAIN lst.ths /\ lst.ths[i].pc = pc

\* line 71: while not self.stop_listening.is_set()
ListenerTest(i) ==
  /\ At(i, "test")
  /\ lst' = [lst EXCEPT !.ths[i].pc = IF lst.stop THEN "exited" ELSE "open"]
  /\ UNCHANGED <<now, subpath, epoch, conflicts, fs, fds, inst, op, nInst, nOps, nExt, io, chan>>

\* line 73: open(self.pipe_path, "r") raises when the path cannot be opened
\* and returns at once for a regular file (taken to be empty); for a FIFO it
\* blocks until a writer opens it
ListenerOpen(i) ==
  /\ At(i, "open")
  /\ lst' = [lst EXCEPT !.ths[i].pc = IF ~PipeExists(chan) THEN "except"
                                      ELSE IF chan.node = "file" THEN "iter"
                                      ELSE "blocked",
                        !.ths[i].exc = IF ~PipeExists(chan) THEN "open" ELSE @]
  /\ UNCHANGED <<now, subpath, epoch, conflicts, fs, fds, inst, op, nInst, nOps, nExt, io, chan>>

\* a writer (chatextension/handlers.py lines 24-25, or any other process)
\* opens the FIFO, writes a batch of lines and closes it; the blocked open
\* of the listener returns and the lines are read
Deliver(i, maxB) ==
  /\ At(i, "blocked")
  /\ Len(lst.got) < maxB
  /\ \E batch \in Batches :
       /\ Len(lst.got) + Len(batch) <= maxB
       /\ lst' = [lst EXCEPT !.ths[i].pc = "iter", !.ths[i].buf = batch,
                             !.got = lst.got \o batch]
  /\ UNCHANGED <<now, subpath, epoch, conflicts, fs, fds, inst, op, nInst, nOps, nExt, io, chan>>

\* an iteration that looks at the stop signal before every line
ListenerIter_stopping(i) ==
  /\ At(i, "iter")
  /\ LET th == lst.ths[i] IN
       IF lst.stop THEN lst' = [lst EXCEPT !.ths[i].pc = "exited", !.ths[i].buf = <<>>]
       ELSE IF th.buf = <<>> THEN lst' = [lst EXCEPT !.ths[i].pc = "test"]
       ELSE LET new_path == strip(Head(th.buf)) IN
         IF accepts(new_path)
           THEN lst' = [lst EXCEPT !.ths[i] = [th EXCEPT !.pc = "callback",
                                                         !.buf = Tail(th.buf),
                                                         !.cur = new_path, !.n = nInst],
                                   !.calls = Append(lst.calls, new_path)]
           ELSE lst' = [lst EXCEPT !.ths[i].buf = Tail(th.buf)]
  /\ UNCHANGED <<now, subpath, epoch, conflicts, fs, fds, inst, op, nInst, nOps, nExt, io, chan>>

\* lines 74-77: the next line of the pipe, stripped and tested; at the end of
\* the data the with block closes the pipe and the loop goes round
ListenerIter(i) ==
  /\ At(i, "iter")
  /\ LET th == lst.ths[i] IN
       IF th.buf = <<>> THEN lst' = [lst EXCEPT !.ths[i].pc = "test"]
       ELSE LET new_path == strip(Head(th.buf)) IN
         IF accepts(new_path)
           THEN lst' = [lst EXCEPT !.ths[i] = [th EXCEPT !.pc = "callback",
                                                         !.buf = Tail(th.buf),
                                                         !.cur = new_path, !.n = nInst],
                                   !.calls = Append(lst.calls, new_path)]
           ELSE lst' = [lst EXCEPT !.ths[i].buf = Tail(th.buf)]
  /\ UNCHANGED <<now, subpath, epoch, conflicts, fs, fds, inst, op, nInst, nOps, nExt, io, chan>>

\* line 78 and main.py lines 75-76: self.update_callback(new_path) enters the
\* subpath setter
ListenerCallback(i, maxI) ==
  /\ At(i, "callback")
  /\ nInst = lst.ths[i].n
  /\ SetterAssign({lst.ths[i].cur}, maxI)

\* the callback returns, or raises what os.makedirs raised: the exception
\* leaves the with block, which closes the pipe with the lines still in it
ListenerReturn(i) ==
  /\ At(i, "callback")
  /\ nInst = lst.ths[i].n + 1
  /\ inst.pc = "idle"
  /\ lst' = IF inst.err = "ok" THEN [lst EXCEPT !.ths[i].pc = "iter"]
            ELSE [lst EXCEPT !.ths[i].pc = "except", !.ths[i].buf = <<>>,
                             !.ths[i].exc = "callback"]
  /\ UNCHANGED <<now, subpath, epoch, conflicts, fs, fds, inst, op, nInst, nOps, nExt, io, chan>>

\* lines 79-81: except Exception: log, time.sleep(5)
ListenerBackoff(i) ==
  /\ At(i, "except")
  /\ lst' = [lst EXCEPT !.ths[i].pc = "recreate"]
  /\ UNCHANGED <<now, subpath, epoch, conflicts, fs, fds, inst, op, nInst, nOps, nExt, io, chan>>

\* line 82: self._create_pipe(), inside the except clause: an OSError it
\* raises ends listen_for_updates and with it the thread
ListenerRecreate(i) ==
  /\ At(i, "recreate")
  /\ LET r == create_pipe(chan) IN
       /\ chan' = r.fs
       /\ lst' = [lst EXCEPT !.ths[i].pc = IF r.res = "ok" THEN "test" ELSE "crashed",
                             !.ths[i].exc = IF r.res = "ok" THEN "none" ELSE @]
  /\ UNCHANGED <<now, subpath, epoch, conflicts, fs, fds, inst, op, nInst, nOps, nExt, io>>

\* another process removes the channel file, or replaces the directory of
\* the channel by a file
Damage(maxD) ==
  /\ lst.caller \notin {"new", "failed"}
  /\ nExt < maxD
  /\ nExt' = nExt + 1
  /\ \E d \in {"dir", "file"} :
       chan' = [chan EXCEPT !.dir = d, !.node = "none", !.mode = {}]
  /\ chan' # chan
  /\ lst' = [lst EXCEPT !.ths = Unlinked(lst.ths)]
  /\ UNCHANGED <<now, subpath, epoch, conflicts, fs, fds, inst, op, nInst, nOps, io>>

StopSteps == StopJoin \/ StopCleanup

(***************************************************************************)
(* Spec: one operation of any kind beside the listener's installations.    *)
(***************************************************************************)
\* the byte-range calls and the listener at rest
Apart == io = IoIdle /\ chan = ChanAbsent /\ lst = LstNew

Init == Constructed({Store(StartTime, 0, StartTime, StartTime)}) /\ Apart

Next ==
  \/ Tick
  \/ SetterAssign(Lines, MaxInstalls)
  \/ Setter
  \/ Dispatch(MaxOps)
  \/ DispatchCreate(LPaths \ {Slash}, MaxOps)
  \/ Handler

Spec == Init /\ [][Next]_vars

(***************************************************************************)
(* SpecCreate: creations beside installations and removals by others.      *)
(***************************************************************************)
InitCreate == Constructed({Store(StartTime, 0, StartTime, StartTime)}) /\ Apart

NextCreate ==
  \/ Tick
  \/ SetterAssign(LinesBelow, CreateInstalls)
  \/ Setter
  \/ DispatchCreate({Abs(<<N("a")>>)}, CreateOps)
  \/ ConflictExists
  \/ ConflictHidden
  \/ SetAside
  \/ Call
  \/ ExternalRemove(CreateExternal)

SpecCreate == InitCreate /\ [][NextCreate]_vars

(***************************************************************************)
(* SpecPlain: creations with prevent_hidden_path_conflicts=False.          *)
(***************************************************************************)
InitPlain ==
  ConstructedWith({Store(StartTime, 0, StartTime, StartTime)}, FALSE) /\ Apart

NextPlain ==
  \/ Tick
  \/ SetterAssign(LinesBelow, CreateInstalls)
  \/ Setter
  \/ DispatchCreate(LPaths \ {Slash}, CreateOps)
  \/ ConflictExists
  \/ Call

SpecPlain == InitPlain /\ [][NextPlain]_vars

(***************************************************************************)
(* SpecIO: concurrent read and write calls on one descriptor.              *)
(***************************************************************************)
InitIO ==
  /\ Constructed({Store(StartTime, 0, StartTime, StartTime)})
  /\ io = IoIdle /\ chan = ChanAbsent /\ lst = LstNew

NextIO ==
  \E t \in IoThreads :
    \/ IoDispatch(t)
    \/ IoAcquire(t)
    \/ IoSeek(t)
    \/ IoData(t)
    \/ IoRelease(t)

SpecIO == InitIO /\ [][NextIO]_vars

(***************************************************************************)
(* SpecListener: the SubpathUpdater, its caller, the writers of the        *)
(* channel and the setter its callback runs.  SpecListenerFair adds that   *)
(* the threads of the program keep running; writers and other processes    *)
(* owe nothing.                                                            *)
(***************************************************************************)
InitListener ==
  /\ Constructed({Store(StartTime, 0, StartTime, StartTime)})
  /\ io = IoIdle /\ chan \in ChanAtStart /\ lst = LstNew

\* every start() creates at most one Thread object beside the constructor's
ThreadIds == 1..(MaxStarts + 1)

Threads ==
  \/ \E i \in ThreadIds : ListenerTest(i)
  \/ \E i \in ThreadIds : ListenerOpen(i)
  \/ \E i \in ThreadIds : ListenerIter(i)
  \/ \E i \in ThreadIds : ListenerCallback(i, MaxLines)
  \/ \E i \in ThreadIds : ListenerReturn(i)
  \/ \E i \in ThreadIds : ListenerBackoff(i)
  \/ \E i \in ThreadIds : ListenerRecreate(i)

NextListener ==
  \/ Construct
  \/ StartListener(MaxStarts)
  \/ StopSet(MaxStops)
  \/ StopSteps
  \/ Threads
  \/ \E i \in ThreadIds : Deliver(i, MaxLines)
  \/ Setter
  \/ Tick
  \/ Damage(MaxDamage)

SpecListener == InitListener /\ [][NextListener]_vars

SpecListenerFair ==
  SpecListener /\ WF_vars(Threads) /\ WF_vars(Setter) /\ WF_vars(StopSteps)

(***************************************************************************)
(* SpecAccess: access calls with a mode, beside installations, on a store  *)
(* whose file a is hidden or visible.                                      *)
(***************************************************************************)
\* logical paths of the access calls: "/", "/a", "/d" and the missing "/b"
AccessPaths == LPaths \cup {Abs(<<N("b")>>)}

InitAccess ==
  /\ Constructed({Store(StartTime, 0, StartTime, StartTime),
                  Store(StartTime, StartTime, StartTime, StartTime)})
  /\ Apart

NextAccess ==
  \/ Tick
  \/ SetterAssign(Lines, MaxInstalls)
  \/ Setter
  \/ DispatchAccess(AccessPaths, CreateOps)
  \/ EnforceRoot
  \/ EnforceHidden
  \/ Call

SpecAccess == InitAccess /\ [][NextAccess]_vars

(***************************************************************************)
(* SpecLock: metadata operations and installations beside one read or      *)
(* write call of another thread of the dispatch layer.                     *)
(***************************************************************************)
\* metadata handlers with one path argument
LockKinds == {"readdir", "unlink"}

InitLock == Constructed({Store(StartTime, 0, StartTime, StartTime)}) /\ Apart

NextLock ==
  \/ IoDispatch(1)
  \/ \E t \in IoThreads : IoAcquire(t)
  \/ \E t \in IoThreads : IoSeek(t)
  \/ \E t \in IoThreads : IoData(t)
  \/ \E t \in IoThreads : IoRelease(t)
  \/ \E kind \in LockKinds :
       Start(kind, IF kind = "readdir" THEN Slash ELSE Abs(<<N("a")>>), Slash, NoHandle, 0, MaxOps)
  \/ Start("rename", Abs(<<N("d")>>), Abs(<<N("b")>>), NoHandle, 0, MaxOps)
  \/ DispatchCreate({Abs(<<N("a")>>)}, MaxOps)
  \/ Handler
  \/ Tick
  \/ SetterAssign({Rel(<<N("s"), Empty>>)}, MaxInstalls)
  \/ Setter

SpecLock == InitLock /\ [][NextLock]_vars

(***************************************************************************)
(* SpecReplace: rename, link and symlink between the visible file a and    *)
(* the hidden file d/a, beside installations.                              *)
(***************************************************************************)
InitReplace == Constructed({Store(StartTime, StartTime, StartTime, 0)}) /\ Apart

NextReplace ==
  \/ Tick
  \/ SetterAssign(Lines, MaxInstalls)
  \/ Setter
  \/ \E kind \in TwoPaths, lp, arg \in {Abs(<<N("a")>>), Abs(<<N("d"), N("a")>>)} :
       Start(kind, lp, arg, NoHandle, 0, MaxOps)
  \/ Resolve2
  \/ EnforceRoot
  \/ EnforceHidden
  \/ Call

SpecReplace == InitReplace /\ [][NextReplace]_vars

(***************************************************************************)
(* SpecCalls: read and write calls of several threads, each with the       *)
(* visibility check before the locked section, on the hidden file a and   *)
(* the visible file d/a, and on a read-only descriptor and a closed one,    *)
(* so that transfers succeed, transfers fail and seeks fail.  The threads  *)
(* keep running, and a thread waiting for rwlock gets it when it is free   *)
(* often enough.                                                           *)
(***************************************************************************)
NextCalls ==
  \/ \E t \in IoThreads :
       IoStart(t, {Abs(<<N("a")>>), Abs(<<N("d"), N("a")>>)}, {"ro", "closed"})
  \/ \E t \in IoThreads : IoEnforce(t)
  \/ \E t \in IoThreads : IoAcquire(t)
  \/ \E t \in IoThreads : IoSeek(t)
  \/ \E t \in IoThreads : IoData(t)
  \/ \E t \in IoThreads : IoRelease(t)

SpecCalls ==
  /\ Init /\ [][NextCalls]_vars
  /\ \A t \in IoThreads :
       /\ WF_vars(IoEnforce(t) \/ IoSeek(t) \/ IoData(t) \/ IoRelease(t))
       /\ SF_vars(IoAcquire(t))

(***************************************************************************)
(* SpecHandle: open of the file a, visible at construction, then flush,    *)
(* fsync and release on the handle or on none, beside installations that   *)
(* change the subpath and hide a.                                          *)
(***************************************************************************)
InitHandle == Constructed({Store(StartTime, StartTime, StartTime, StartTime)}) /\ Apart

NextHandle ==
  \/ Tick
  \/ SetterAssign(LinesBelow, CreateInstalls)
  \/ Setter
  \/ Start("open", Abs(<<N("a")>>), Slash, NoHandle, 0, CreateOps)
  \/ \E kind \in Unchecked, h \in DOMAIN fds \cup {NoHandle} :
       Start(kind, Abs(<<N("a")>>), Slash, h, 0, CreateOps)
  \/ EnforceRoot
  \/ EnforceHidden
  \/ Call

SpecHandle == InitHandle /\ [][NextHandle]_vars

(***************************************************************************)
(* Properties.                                                             *)
(***************************************************************************)
\* steps of the operation in flight that read last_subpath_update (through
\* the predicate) and steps that read _subpath again after __call__
ReadsEpoch == op.pc \in {"hidden", "conflict_hidden", "filter"} /\ op'.pc # op.pc
ReadsSubpath ==
  /\ op.pc \in {"resolve2", "enforce"} \/ (op.pc = "filter" /\ op.out # {})
  /\ op'.pc # op.pc

\* C1: installing a subpath is atomic with respect to operations: an
\* operation observes the previous (subpath, epoch) pair or the new one, and
\* never evaluates the predicate against the old epoch after having resolved
\* its path under the new subpath.
C1_AtomicInstallation ==
  [][ReadsEpoch => ~(Pair \notin {inst.old, inst.new} /\ op.sp = subpath)]_vars

\* C2: an operation reads the current subpath once; whenever its handler
\* resolves a path or compares against the mount root, the subpath is the
\* one its first path was resolved under.
C2_OneSnapshot == [][ReadsSubpath => subpath = op.sp]_vars

\* the handlers that call _enforce_path_hiding
VisChecked == EnforceFirst \cup SourceSecond

C4_ListingOfDirectory ==
  [][(op.pc = "filter" /\ op'.pc = "done") =>
       /\ op'.res = "ok"
       /\ op'.out = {Dot, DotDot} \cup
            {n \in op.out :
               ~Older(fs, epoch, Join(Follow(fs, op.path), Rel(<<n>>)))}]_vars

\* C5: a visibility-checked operation on the logical root "/" is never
\* rejected by the visibility check, also while an installation runs.
C5_RootNeverRejected ==
  ~(/\ op.kind \in VisChecked /\ CheckedLp = Slash
    /\ op.pc = "done" /\ ~op.called /\ op.chk \in {"older", "missing"})

\* C6: the mount path and every resolved backing path are the root or a
\* descendant of it, whatever lines the control channel delivers.
C6_InsideRoot ==
  /\ Inside(NormPath(mountpath(subpath)), Root)
  /\ Busy => /\ Inside(op.path, Root)
             /\ op.path2 # EmptyStr => Inside(op.path2, Root)

\* the backing path of logical path lp under the installed line
ExpectedPath(line, lp) ==
  NormPath(Join(Join(Root, NormPath(line)), LStripSlash(lp)))

\* C7: an operation dispatched after the installation of a line has returned,
\* with no installation started since, acts on
\* normalize(join(root, normalize(line), logical path without leading slashes)),
\* for its first path and for the second path it resolves.
C7_ResolvedUnderInstalled ==
  (Busy /\ op.quiet) =>
    /\ op.path = ExpectedPath(inst.line, op.lp)
    /\ op.path2 # EmptyStr => op.path2 = ExpectedPath(inst.line, op.arg)

\* after "s/" was installed, a create of "/a" is about to create r/s/a
C7_Witness ==
  /\ Busy /\ op.quiet /\ nInst = 1 /\ inst.pc = "idle"
  /\ inst.line = Rel(<<N("s"), Empty>>)
  /\ op.kind = "create" /\ op.pc = "call" /\ op.lp = Abs(<<N("a")>>)
  /\ op.path = Abs(<<N("r"), N("s"), N("a")>>)

\* C8: with conflict avoidance on, a create, mkdir or mknod that found a
\* hidden entry at its path (and was not disturbed by another process)
\* succeeds, a new entry is at the path, and the hidden entry is still in the
\* same directory under another name with its content unchanged.
C8_HiddenEntrySetAside ==
  (op.kind \in Creators /\ conflicts /\ op.hino # 0 /\ op.alone /\ op.pc = "done") =>
    /\ op.res = "ok"
    /\ LExists(fs, op.path) /\ fs[op.path].ino # op.hino
    /\ \E q \in Children(fs, Parent(op.path)) \ {op.path} :
         fs[q].ino = op.hino /\ fs[q].data = op.hdata

\* C9: the name generated for setting a hidden entry aside is the name of no
\* existing entry, and the set-aside rename destroys no entry of the store.
C9_SetAsideNameUnique ==
  [][(op.pc = "set_aside" /\ op'.pc # "set_aside") =>
       /\ LExists(fs, op.path) => ~LExists(fs, generate_unique_name(op.path, now))
       /\ \A q \in DOMAIN fs : \E n \in DOMAIN fs' : fs'[n].ino = fs[q].ino]_vars

\* C10: a failed set-aside rename is swallowed, and the creation proceeds,
\* exactly when it failed with ENOENT because the hidden entry had gone; any
\* other failure is the result of the operation and the creating call is not
\* made.
C10_SetAsideFailure ==
  (op.sa \notin {"none", "ok"}) =>
    IF op.sa = "ENOENT" /\ op.gone
      THEN op.pc = "call" \/ op.called
      ELSE op.pc = "done" /\ op.res = op.sa /\ ~op.called

\* another process removed the hidden entry before the rename; the rename
\* failed with ENOENT and the creation went on to succeed
C10_Witness ==
  /\ op.kind \in Creators /\ op.sa = "ENOENT" /\ op.gone /\ ~op.alone
  /\ op.pc = "done" /\ op.called /\ op.res = "ok"

\* the os call a creating handler delegates to, on store f at path p
Underlying(kind, f, held, p, t) ==
  CASE kind = "create" -> SysOpenCreat(f, held, p, t)
    [] kind = "mkdir" -> SysMake(f, held, p, "dir", t)
    [] kind = "mknod" -> SysMake(f, held, p, "file", t)

\* C11: with conflict avoidance off, every step of create, mkdir and mknod
\* before the delegated call leaves the store as it is and leads to that
\* call, and the call's result and effect on the store are those of the
\* underlying os call on the resolved path, hidden entry or not.
C11_PlainCreation ==
  [][(op.kind \in Creators /\ ~conflicts /\ Busy /\ op'.pc # op.pc) =>
       IF op.pc = "call"
         THEN /\ op'.pc = "done"
              /\ op'.res = Underlying(op.kind, fs, Held, op.path, now).res
              /\ fs' = Underlying(op.kind, fs, Held, op.path, now).fs
              /\ op'.sa = "none"
         ELSE op'.pc = "call" /\ fs' = fs]_vars

\* with conflict avoidance off, mkdir on the hidden file a failed with EEXIST
C11_Witness ==
  /\ ~conflicts /\ op.kind = "mkdir" /\ op.pc = "done" /\ op.called
  /\ op.res = "EEXIST" /\ op.sa = "none" /\ Older(fs, epoch, op.path)

\* C12: at most one read or write call is between taking rwlock and
\* releasing it, so no call seeks or transfers between another call's seek
\* and its transfer, and every call transfers at the offset it was given.
C12_ByteRangeExclusive ==
  /\ Cardinality({t \in IoThreads : io.call[t].pc \in {"seek", "data", "release"}}) <= 1
  /\ \A t \in IoThreads :
       io.call[t].pc \in {"release", "done"} => io.call[t].at = io.call[t].off

\* a write at offset 1 has transferred while a read at offset 0 waits for
\* the lock
C12_Witness ==
  /\ io.call[1].pc = "release" /\ io.call[1].kind = "write" /\ io.call[1].off = 1
  /\ io.call[1].at = 1 /\ io.data[1] = 1
  /\ io.call[2].pc = "acquire" /\ io.call[2].kind = "read" /\ io.call[2].off = 0

\* start() has been called
Started == \E k \in DOMAIN lst.seq : lst.seq[k] = "start"

\* C13: a stop() called after start() returns, with the channel file
\* removed, whatever the listener thread is doing, also when it is blocked
\* in the open of a channel no writer opens.
C13_StopReturns ==
  (lst.caller = "join" /\ Started) ~> (lst.caller = "ready" /\ ~PipeExists(chan))

\* C14: at most one listener thread is alive, it is self.thread, and a
\* start() while it is alive creates no thread.
C14_OneListener ==
  /\ Cardinality(Alive) <= 1
  /\ \A i \in Alive : i = Len(lst.ths)

\* start() was called twice in a row and the thread of the first is running
C14_Witness ==
  /\ lst.seq = <<"init", "start", "start">>
  /\ Len(lst.ths) = 2 /\ is_alive(Current)


\* C15: after start(), stop(), start() on one instance, with nothing else
\* touching the channel, the listener loop is executing again and the
\* control channel exists.
C15_Respawned ==
  (lst.seq = <<"init", "start", "stop", "stopped", "start">> /\ nExt = 0)
    => (is_alive(Current) /\ PipeExists(chan))


\* the non-empty trimmed lines among lines, in order
Trimmed(lines) ==
  SelectSeq([k \in 1..Len(lines) |-> strip(lines[k])], accepts)

\* no thread holds lines it has yet to iterate and no callback is running
Consumed ==
  /\ inst.pc = "idle"
  /\ \A i \in DOMAIN lst.ths : lst.ths[i].pc \notin {"iter", "callback"}

\* C16: when the lines read from the channel have been consumed, the callback
\* has been invoked once for each non-empty trimmed line, in the order read,
\* and the active subpath is the normalized last of them.
C16_OncePerLine ==
  Consumed =>
    /\ lst.calls = Trimmed(lst.got)
    /\ lst.calls # <<>> => subpath = NormPath(Last(lst.calls))


\* the lines read so far that are empty or only whitespace
Blank(k) == lst.got[k].text = EmptyStr

\* C17: a line that is empty or only whitespace is ignored: the callback is
\* never invoked with an empty argument nor more often than there are other
\* lines, and while only such lines have been read the active subpath and
\* the epoch are those of construction and nothing has been installed.
C17_BlankIgnored ==
  /\ \A k \in DOMAIN lst.calls : lst.calls[k] # EmptyStr
  /\ Len(lst.calls) <= Cardinality({k \in DOMAIN lst.got : ~Blank(k)})
  /\ nInst <= Len(lst.calls)
  /\ (\A k \in DOMAIN lst.got : Blank(k)) =>
       /\ nInst = 0 /\ inst.pc = "idle"
       /\ subpath = NormPath(EmptyStr) /\ epoch = StartTime

\* "  \n" and "\n" were read and iterated, and the listener went on to the
\* next open
C17_Witness ==
  /\ Len(lst.got) = 2 /\ lst.got[1].lead = 2 /\ Blank(1) /\ Blank(2)
  /\ \E i \in DOMAIN lst.ths : lst.ths[i].pc = "blocked" /\ lst.ths[i].buf = <<>>
  /\ lst.calls = <<>>


\* C18: every accepted message handed to the setter sets the active subpath
\* to the normalized line and goes on to advance the epoch, also when the
\* line names the subpath that is already active.
C18_MutatesOnce ==
  [][(\E i \in DOMAIN lst.ths : lst.ths[i].pc = "callback") /\ nInst' = nInst + 1
       => subpath' = NormPath(inst'.line) /\ inst'.pc = "epoch"]_vars


\* C19: no failure of the channel ends a listener thread: a thread ends only
\* by observing the stop signal, also when recreating the channel fails.
C19_NeverFatal ==
  \A i \in DOMAIN lst.ths :
    /\ lst.ths[i].pc # "crashed"
    /\ lst.ths[i].pc = "exited" => lst.stop


\* C20: when the constructor has returned, the directory of the channel
\* exists and so does the channel; a FIFO it created has the configured
\* permissions, and an entry found at the channel path is as it was.  When
\* the constructor has raised, no listener thread is ever started.
C20_ChannelEnsured ==
  /\ (lst.caller = "ready" /\ lst.seq = <<"init">> /\ nExt = 0) =>
       /\ DirExists(chan) /\ PipeExists(chan)
       /\ lst.made => chan.node = "fifo" /\ chan.mode = pipe_permissions
       /\ ~lst.made => [node |-> chan.node, mode |-> chan.mode] = lst.pre
  /\ lst.caller = "failed" =>
       \A i \in DOMAIN lst.ths : lst.ths[i].pc = "unstarted"

\* a step of a filesystem operation: its dispatch or a step of its handler
OpStep == nOps' # nOps \/ op'.pc # op.pc

\* C21: no step of a filesystem operation, successful or failing, changes
\* the active subpath, the epoch or the conflict flag (the root, the other
\* flag and the predicate are fixed); the subpath and the epoch change only
\* in steps of the subpath setter, which the installation callback runs.
C21_MountStateFramed ==
  [][/\ OpStep => subpath' = subpath /\ epoch' = epoch /\ conflicts' = conflicts
     /\ (subpath' # subpath \/ epoch' # epoch) => inst'.pc # inst.pc
     /\ conflicts' = conflicts]_vars

\* a rename through the mount has changed the store, and an unlink has failed
C21_Witness ==
  /\ op.pc = "done" /\ nInst = 0
  /\ \/ op.kind = "rename" /\ op.res = "ok" /\ op.wrote
     \/ op.kind = "rmdir" /\ op.res = "ENOTEMPTY"

SourceSide == IF op.kind = "rename" THEN op.path ELSE op.path2
TargetSide == IF op.kind = "rename" THEN op.path2 ELSE op.path
TargetGiven == IF op.kind = "rename" THEN op.arg ELSE op.path
\* os.rename(old_path, abs_new_path), os.link(abs_source, target),
\* os.symlink(abs_source, target)
OsTwoPaths(kind, f, held, src, dst, t) ==
  CASE kind = "rename" -> SysRename(f, src, dst, t)
    [] kind = "link" -> SysLink(f, src, dst, t)
    [] kind = "symlink" -> SysSymlink(f, held, src, dst, t)

\* C23 as stated: the delegated call of rename, link and symlink takes as
\* destination the target-side argument exactly as the handler received it.
C23_TargetAsSupplied ==
  (op.kind \in TwoPaths /\ op.pc = "call") => TargetSide = TargetGiven

\* C23, amended: the first path argument is resolved by __call__ and the
\* second inside the handler, each once; the visibility check looks at the
\* source side only; the delegated call takes the two resolved paths.  The
\* destination is the first argument for link and symlink, and for rename
\* the second, resolved inside the handler.
C23_TwoPathsResolved ==
  [][(op.kind \in TwoPaths /\ op'.pc # op.pc /\ Busy) =>
       CASE op.pc = "resolve2" ->
              /\ op'.path2 = to_absolute_path(subpath, op.arg)
              /\ op'.path = op.path
         [] op.pc = "enforce" ->
              /\ op'.path = op.path /\ op'.path2 = op.path2
              /\ op'.pc # "done"
         [] op.pc = "hidden" ->
              IF Older(fs, epoch, SourceSide) \/ ~StatOk(fs, SourceSide)
                THEN op'.pc = "done" /\ op'.res = "ENOENT" /\ ~op'.called
                ELSE op'.pc # "done" /\ op'.path = op.path /\ op'.path2 = op.path2
         [] op.pc = "call" ->
              /\ op.path = to_absolute_path(op.sp, op.lp)
              /\ op.chk \in {"exempt", "newer"}
              /\ op'.res = OsTwoPaths(op.kind, fs, Held, SourceSide, TargetSide, now).res
              /\ fs' = OsTwoPaths(op.kind, fs, Held, SourceSide, TargetSide, now).fs
         [] OTHER -> FALSE]_vars

\* rename of "/d" to "/b" has moved r/d to r/b
C23_Witness ==
  /\ op.kind = "rename" /\ op.pc = "done" /\ op.res = "ok" /\ op.wrote
  /\ op.lp = Abs(<<N("d")>>) /\ op.arg = Abs(<<N("b")>>)
  /\ LExists(fs, Abs(<<N("r"), N("b")>>)) /\ ~LExists(fs, Abs(<<N("b")>>))

\* C24: a listener thread ends by the stop signal only at the loop head,
\* where a set signal makes it exit without another open; inside a session
\* the signal changes nothing: with the signal set, the next line is still
\* iterated and, when not blank, handed to the callback.
C24_StopAtLoopHead ==
  [][\A i \in DOMAIN lst.ths :
       LET th == lst.ths[i]
           nx == lst'.ths[i]
       IN /\ (nx.pc = "exited" /\ th.pc # "exited") => th.pc = "test" /\ lst.stop
          /\ (th.pc = "test" /\ nx.pc # "test" /\ lst.stop) => nx.pc = "exited"
          /\ (th.pc = "iter" /\ nx # th /\ lst.stop /\ th.buf # <<>>) =>
               /\ nx.buf = Tail(th.buf)
               /\ IF strip(Head(th.buf)) # EmptyStr
                    THEN /\ nx.pc = "callback" /\ nx.cur = strip(Head(th.buf))
                         /\ lst'.calls = Append(lst.calls, nx.cur)
                    ELSE nx.pc = "iter"
          /\ (th.pc = "callback" /\ nx.pc # "callback" /\ lst.stop) =>
               nx.pc = IF inst.err = "ok" THEN "iter" ELSE "except"]_vars

\* the stop signal is set, stop() waits in join, and the listener is in the
\* callback for a line with another line of the session still to come
C24_Witness ==
  /\ lst.stop /\ lst.caller = "join"
  /\ \E i \in DOMAIN lst.ths :
       /\ lst.ths[i].pc = "callback" /\ Len(lst.ths[i].buf) = 1
       /\ inst.pc # "idle"

\* a thread is inside the with self.rwlock block of read or write
LockHeld == io.lock # NoThread

\* C25: rwlock is held only by a thread in read or write, and while it is
\* held every metadata operation in flight and a running installation have
\* a step to take and take it without touching the lock.
C25_LockOnlyByteRange ==
  /\ [](LockHeld =>
          /\ io.lock \in IoThreads /\ io.call[io.lock].kind \in {"read", "write"}
          /\ (Busy /\ op.kind \notin {"read", "write"}) => ENABLED Handler
          /\ inst.pc # "idle" => ENABLED Setter)
  /\ [][(OpStep \/ inst'.pc # inst.pc) => io' = io]_vars

\* while a write call was inside its locked section, a rename was dispatched
\* and ran to completion, and so did an installation
C25_Witness ==
  /\ LockHeld /\ io.call[io.lock].pc = "data"
  /\ op.locked /\ op.pc = "done" /\ op.kind = "rename" /\ op.res = "ok"
  /\ nInst = 1 /\ inst.pc = "idle"

\* C26: the constructor sets the subpath and the epoch; afterwards the epoch
\* never decreases and changes only in an installation that changed the
\* subpath; an installation of a value whose normalized form is the active
\* subpath changes neither and returns at once.
C26_EpochWithSubpath ==
  /\ [](nInst = 0 => subpath = NormPath(EmptyStr) /\ epoch = StartTime)
  /\ [][/\ epoch' >= epoch
        /\ epoch' # epoch => inst.pc = "epoch" /\ inst.old[1] # subpath
        /\ (nInst' = nInst + 1 /\ NormPath(inst'.line) = subpath) =>
             subpath' = subpath /\ epoch' = epoch /\ inst'.pc = "idle"]_vars

\* the line "s/" was installed twice in a row: the second installation
\* returned with the subpath and the epoch of the first
C26_Witness ==
  /\ lst.calls = <<Rel(<<N("s"), Empty>>), Rel(<<N("s"), Empty>>)>>
  /\ nInst = 2 /\ inst.pc = "idle" /\ Consumed
  /\ subpath = Rel(<<N("s")>>) /\ inst.old = <<subpath, epoch>>
  /\ epoch > StartTime

\* C27: when os.makedirs fails in an installation, the subpath and the
\* epoch are those from before the installation began.
C27_AllOrNothing ==
  [][(inst.pc = "makedirs" /\ inst'.pc = "idle" /\ inst'.err # "ok") =>
       <<subpath', epoch'>> = inst.old]_vars

\* the directory of the mount root exists in store f
MountDirIn(f) ==
  LET m == NormPath(mountpath(subpath')) IN StatOk(f, m) /\ f[Follow(f, m)].kind = "dir"

\* C28: when an installation returns without an error, the directory
\* root/activeSubpath exists on the backing store.
C28_MountDirExists ==
  [][(\/ inst.pc = "makedirs" /\ inst'.pc = "idle" /\ inst'.err = "ok"
      \/ inst.pc = "idle" /\ nInst' = nInst + 1 /\ inst'.pc = "idle")
       => MountDirIn(fs')]_vars

\* C29: with conflict avoidance on, every entry that is hidden when a step
\* of a filesystem operation is taken is still in the store after the step,
\* under its own or another name, with its content.
C29_HiddenEntriesKept ==
  [][(conflicts /\ OpStep) =>
       \A q \in DOMAIN fs :
         Older(fs, epoch, q) =>
           \E n \in DOMAIN fs' : fs'[n].ino = fs[q].ino /\ fs'[n].data = fs[q].data]_vars

\* C30: a listener thread handling an exception raised by the callback does
\* not end with it: it goes through the backoff and the recreation of the
\* channel and back to the loop head.
C30_CallbackFailureSurvived ==
  \A i \in DOMAIN lst.ths :
    lst.ths[i].exc = "callback" => lst.ths[i].pc # "crashed"


\* C31: rwlock is held exactly while its holder is inside the locked
\* section of read or write; a call the visibility check rejected is over
\* without having touched the lock; a call that has taken the lock ends
\* with the lock released, also when its seek or its transfer failed; and
\* no call waits for the lock or holds it for ever: from some point on
\* every call made is over.
C31_LockReleased ==
  /\ [](\A t \in IoThreads :
          /\ io.lock = t <=> io.call[t].pc \in {"seek", "data", "release"}
          /\ io.call[t].res = "ENOENT" => io.call[t].pc = "done")
  /\ [][\A t \in IoThreads :
          /\ (io.call[t].pc = "enforce" /\ io'.call[t].pc = "done") => io'.lock = io.lock
          /\ io'.lock = t /\ io.lock # t => io.call[t].pc = "acquire"]_vars
  /\ <>[](\A t \in IoThreads : io.call[t].pc \notin {"acquire", "seek", "data", "release"})

\* thread 1 was rejected on the hidden file a; thread 2 is over with the
\* lock free after its transfer failed, a write on a read-only descriptor
C31_Witness ==
  /\ io.call[1].pc = "done" /\ io.call[1].res = "ENOENT" /\ io.call[1].lp = Abs(<<N("a")>>)
  /\ io.call[2].pc = "done" /\ io.call[2].res = "EBADF" /\ io.call[2].fh = "ro"
  /\ io.call[2].kind = "write" /\ io.lock = NoThread


\* C32: flush, fsync and release go straight to their system call without
\* a visibility check, and its outcome is decided by the handle alone: on an
\* open handle it succeeds whatever the path resolves to and whether or not
\* that entry is hidden, release closes the handle, and the store is left
\* as it is.
C32_HandleOpsUnchecked ==
  /\ [](op.kind \in Unchecked => op.chk = "none" /\ op.pc \in {"call", "done"})
  /\ [][(op.kind \in Unchecked /\ op.pc = "call" /\ op'.pc = "done") =>
          /\ op'.res = IF op.fh \in DOMAIN fds THEN "ok" ELSE "EBADF"
          /\ fs' = fs
          /\ DOMAIN fds' = IF op.kind = "release" THEN DOMAIN fds \ {op.fh} ELSE DOMAIN fds]_vars

\* a handle opened on a was released after two installations had brought
\* the subpath back to the root with a hidden
C32_Witness ==
  /\ op.kind = "release" /\ op.pc = "done" /\ op.res = "ok" /\ fds = <<>>
  /\ nInst = 2 /\ inst.pc = "idle" /\ subpath = NormPath(EmptyStr)
  /\ Older(fs, epoch, op.path)


\* C33: stop() on a SubpathUpdater that was never started ends at its join
\* with an error: the call returns to the caller as raised, the cleanup
\* step is not reached and the channel is left as it was, so a channel
\* file the constructor made, and no other process removed, is still there.
C33_StopBeforeStart ==
  /\ [](/\ lst.caller = "cleanup" => Started
        /\ (~Started /\ lst.made /\ nExt = 0) => PipeExists(chan))
  /\ [][(lst.caller = "join" /\ ~Started /\ lst'.caller # "join") =>
          /\ lst'.caller = "ready" /\ lst'.seq = Append(lst.seq, "raised")
          /\ chan' = chan]_vars

\* stop() was called first and raised; the FIFO the constructor made is in
\* place
C33_Witness ==
  /\ lst.seq = <<"init", "stop", "raised">> /\ lst.caller = "ready" /\ lst.stop
  /\ lst.made /\ chan.node = "fifo" /\ PipeExists(chan)

====
